---- MODULE Spec2Model ----
(***************************************************************************)
(* The Type Ia supernova delay-time-distribution code of flexce            *)
(* (src/flexce/snia.py): the kernel builder snia_dtd and the four builder  *)
(* bodies, and the per-step event engine snia_ev.                          *)
(*                                                                         *)
(* Floating-point values are modelled as exact fractions <<n, d>> in       *)
(* lowest terms with d > 0, extended with the IEEE specials the source can *)
(* produce: <<1, 0>> is +inf, <<-1, 0>> is -inf and <<0, 0>> is NaN.       *)
(* Rounding is not modelled.  Arrays are sequences; the source's 0-based   *)
(* index i is position i + 1.  Times (dt, min_snia_time, the grid t) are   *)
(* whole numbers of Myr.                                                   *)
(*                                                                         *)
(* The builder bodies read names that snia.py binds nowhere (self, tstep,  *)
(* invert_lifetime).  Called through snia_dtd they therefore end in a      *)
(* NameError, and snia_dtd is modelled so.  The four builder bodies are    *)
(* modelled separately as they run on an object self that holds the time   *)
(* grid (SpecKernel): dtd_exp and snia_dtd_single_degenerate then still    *)
(* end in a NameError (tstep, invert_lifetime) before they write to self,  *)
(* so that no run reaches the re-binning and the normalization that close  *)
(* the single-degenerate body (lines 207-214).                             *)
(* flexce.utils.none_to_empty_dict is not part of the sources at hand and  *)
(* is modelled by its name: None becomes the empty dict.                   *)
(***************************************************************************)
EXTENDS Integers, Sequences, FiniteSets, TLC

(***************************************************************************)
(* Bounds of the model.                                                    *)
(***************************************************************************)
\* number of time steps n_steps of the event-engine runs (tstep in 0..NSteps-1)
NSteps == 8
\* number of snia_ev calls followed in one run
MaxCalls == 3
\* largest number of keywords in a kwargs dict handed to snia_dtd
MaxKw == 2
\* largest number of coarse time steps of a kernel build
MaxBuildSteps == 5

(***************************************************************************)
(* Arithmetic on extended fractions.                                       *)
(***************************************************************************)
Abs(n) == IF n < 0 THEN -n ELSE n

Sign(n) == IF n > 0 THEN 1 ELSE IF n < 0 THEN -1 ELSE 0

RECURSIVE Gcd(_, _)
Gcd(a, b) == IF b = 0 THEN a ELSE Gcd(b, a % b)

\* the fraction n/d (d >= 0) in lowest terms; d = 0 gives inf, -inf or NaN
Frac(n, d) ==
    IF d = 0 THEN <<Sign(n), 0>>
    ELSE LET g == Gcd(Abs(n), d) IN <<n \div g, d \div g>>

Num(k) == <<k, 1>>

Zero == <<0, 1>>

One == <<1, 1>>

Inf == <<1, 0>>

NaN == <<0, 0>>

IsNaN(x) == x = NaN

IsFinite(x) == x[2] # 0

\* x + y; inf + inf = inf, inf + -inf = NaN, NaN + y = NaN
FAdd(x, y) ==
    IF x[2] = 0 /\ y[2] = 0 THEN (IF x = y THEN x ELSE NaN)
    ELSE IF x[2] = 0 THEN x
    ELSE IF y[2] = 0 THEN y
    ELSE LET g == Gcd(x[2], y[2])
         IN Frac(x[1] * (y[2] \div g) + y[1] * (x[2] \div g),
                 (x[2] \div g) * y[2])

\* x * y; 0 * inf = NaN
FMul(x, y) ==
    IF x[2] = 0 \/ y[2] = 0 THEN Frac(x[1] * y[1], 0)
    ELSE IF x[1] = 0 \/ y[1] = 0 THEN Zero
    ELSE LET g1 == Gcd(Abs(x[1]), y[2])
             g2 == Gcd(Abs(y[1]), x[2])
         IN Frac((x[1] \div g1) * (y[1] \div g2),
                 (x[2] \div g2) * (y[2] \div g1))

FNeg(x) == <<-x[1], x[2]>>

FSub(x, y) == FAdd(x, FNeg(y))

\* 1 / x as numpy computes it: 1/0 = inf (a RuntimeWarning, no exception)
FRecip(x) ==
    IF x[1] > 0 THEN <<x[2], x[1]>>
    ELSE IF x[1] < 0 THEN <<-x[2], -x[1]>>
    ELSE IF x[2] = 0 THEN NaN ELSE Inf

\* x / y as numpy computes it: 0/0 = NaN, x/0 = +-inf
FDiv(x, y) ==
    IF y[2] = 0 /\ y[1] # 0 THEN (IF x[2] = 0 THEN NaN ELSE Zero)
    ELSE FMul(x, FRecip(y))

\* x <= y and x < y on finite values (every comparison with NaN is false)
FLeq(x, y) ==
    /\ ~IsNaN(x) /\ ~IsNaN(y)
    /\ IF x[2] = 0 \/ y[2] = 0
       THEN (x = y \/ x = <<-1, 0>> \/ y = Inf)
       ELSE x[1] * y[2] <= y[1] * x[2]

FLt(x, y) == FLeq(x, y) /\ x # y

RECURSIVE FPowNat(_, _)
FPowNat(x, k) == IF k = 0 THEN One ELSE FMul(x, FPowNat(x, k - 1))

\* x ** s for an integer exponent s; 0 ** negative = inf
FPow(x, s) == IF s >= 0 THEN FPowNat(x, s) ELSE FRecip(FPowNat(x, -s))

\* np.ceil(a / b).astype(int) for whole numbers a >= 0, b > 0
CeilDiv(a, b) == (a + b - 1) \div b

(***************************************************************************)
(* numpy array operations used by the source.                              *)
(***************************************************************************)
Min(a, b) == IF a < b THEN a ELSE b

\* a[lo:hi] for 0 <= lo, 0 <= hi (numpy clamps both ends to the length)
Slice(a, lo, hi) ==
    LET l == Min(lo, Len(a))
        h == Min(hi, Len(a))
    IN IF h <= l THEN <<>> ELSE [k \in 1..(h - l) |-> a[l + k]]

\* a[::-1]
Reverse(a) == [k \in 1..Len(a) |-> a[Len(a) + 1 - k]]

\* np.sum(a) of a one-dimensional array
RECURSIVE NpSum(_)
NpSum(a) == IF a = <<>> THEN Zero ELSE FAdd(a[1], NpSum(Tail(a)))

\* np.sum(m, axis=1): the sum of each row
SumAxis1(m) == [k \in 1..Len(m) |-> NpSum(m[k])]

\* a * c for a scalar c
Scale(a, c) == [k \in 1..Len(a) |-> FMul(a[k], c)]

\* whether a * b broadcasts (equal lengths, or one of length 1)
Broadcasts(a, b) == Len(a) = Len(b) \/ Len(a) = 1 \/ Len(b) = 1

\* a * b, element by element
ArrMul(a, b) ==
    IF Len(a) = Len(b) THEN [k \in 1..Len(a) |-> FMul(a[k], b[k])]
    ELSE IF Len(a) = 1 THEN Scale(b, a[1]) ELSE Scale(a, b[1])

\* np.zeros(n), and the arrays the inputs are drawn from: all of v in entry
\* p, and the values 1, 2, .., n
Zeros(n) == [k \in 1..n |-> Zero]

OneHot(n, p, v) == [k \in 1..n |-> IF k = p THEN v ELSE Zero]

Ramp(n) == [k \in 1..n |-> Num(k)]

HasNaNOrInf(a) == \E k \in 1..Len(a) : ~IsFinite(a[k])

(***************************************************************************)
(* State.                                                                  *)
(*   snia_dtd:      d_func, d_kwargs (its arguments), snia_param (the      *)
(*                  dict it builds), d_outcome, stdout.                    *)
(*   snia_ev:       params, tstep, dt, Mwd_Ia, dMwd, ria, mstar,           *)
(*                  snia_mass, mstar_tot, sfr (its arguments; Mwd_Ia is    *)
(*                  mutated in place), Nia_stat (the value returned),      *)
(*                  outcome, calls; Mwd0 and emitted record the reservoir  *)
(*                  as deposited and the mass count * snia_mass handed     *)
(*                  out so far.                                            *)
(*   kernel bodies: self (the object whose attributes the builder bodies   *)
(*                  read and write), b_args, b_outcome.                    *)
(***************************************************************************)
VARIABLES d_func, d_kwargs, snia_param, d_outcome, stdout,
          params, tstep, dt, Mwd_Ia, dMwd, ria, mstar, snia_mass, mstar_tot,
          sfr, Nia_stat, outcome, calls, Mwd0, emitted,
          self, b_args, b_outcome

dtdVars == <<d_func, d_kwargs, snia_param, d_outcome, stdout>>

evVars == <<params, tstep, dt, Mwd_Ia, dMwd, ria, mstar, snia_mass, mstar_tot,
            sfr, Nia_stat, outcome, calls, Mwd0, emitted>>

bVars == <<self, b_args, b_outcome>>

vars == <<dtdVars, evVars, bVars>>

\* the values the variables of a part hold while another part is checked
DtdIdle ==
    /\ d_func = "" /\ d_kwargs = {} /\ snia_param = [func |-> "", k |-> {}]
    /\ d_outcome = "idle" /\ stdout = <<>>

EvIdle ==
    /\ params = [func |-> "", min_time |-> 0, prob_prompt |-> Zero,
                 prob_delay |-> Zero]
    /\ tstep = 0 /\ dt = 1 /\ Mwd_Ia = <<>> /\ dMwd = Zero /\ ria = <<>>
    /\ mstar = <<>> /\ snia_mass = One /\ mstar_tot = Zero /\ sfr = <<>>
    /\ Nia_stat = Zero /\ outcome = "idle" /\ calls = 0 /\ Mwd0 = <<>>
    /\ emitted = Zero

BIdle ==
    /\ self = [t |-> <<>>, dt |-> 1, n_steps |-> 0, ria |-> <<>>,
               min_snia_time |-> 0, prob_delay |-> <<>>, prob_prompt |-> <<>>]
    /\ b_args = [func |-> ""] /\ b_outcome = "idle"

(***************************************************************************)
(* snia_dtd: the kernel builder's dispatch on the model name.              *)
(***************************************************************************)
Models == {"exponential", "power_law", "prompt_delayed", "single_degenerate"}

\* the parameter names of each builder's signature
BuilderParams(f) ==
    CASE f = "exponential" -> {"min_snia_time", "timescale", "snia_fraction"}
      [] f = "power_law" -> {"min_snia_time", "nia_per_mstar", "slope"}
      [] f = "prompt_delayed" -> {"A", "B", "min_snia_time"}
      [] f = "single_degenerate" ->
             {"A", "gam", "eps", "normalize", "nia_per_mstar"}

\* the keyword names the printed diagnostic lists for each model
ValidKeywords ==
    [f \in Models |->
        CASE f = "exponential" -> {"timescale", "min_snia_time", "snia_fraction"}
          [] f = "power_law" -> {"min_snia_time", "nia_per_mstar", "slope"}
          [] f = "prompt_delayed" -> {"A", "B", "min_snia_time"}
          [] f = "single_degenerate" -> {}]

\* flexce.utils.none_to_empty_dict: None becomes {}, a dict is kept
none_to_empty_dict(kw) == IF kw.isNone THEN {} ELSE kw.keys

\* Python's binding of **kwargs to the builder's signature: a keyword that is
\* no parameter of the builder raises TypeError before the body runs
BindsKwargs(f, keys) == keys \subseteq BuilderParams(f)

\* what a call snia_dtd(f, kw) ends in.  A builder whose keywords bind runs
\* its body, which reads names (tstep, self) that are bound nowhere in the
\* module: NameError, which "except TypeError" does not catch.  The TypeError
\* of an unknown keyword is caught: the diagnostic is printed and snia_param
\* is returned.  A func that is none of the four calls no builder.
SniaDtdOutcome(f, keys) ==
    IF f \in Models /\ BindsKwargs(f, keys) THEN "NameError" ELSE "returned"

SniaDtdPrints(f, keys) == f \in Models /\ ~BindsKwargs(f, keys)

\* the keyword names a kwargs dict is drawn from
KeywordNames ==
    UNION {BuilderParams(f) : f \in Models} \cup {"foo"}

KwargsInputs ==
    {[isNone |-> TRUE, keys |-> {}]} \cup
    {[isNone |-> FALSE, keys |-> S] :
        S \in {T \in SUBSET KeywordNames : Cardinality(T) <= MaxKw}}

snia_dtd(f, kw) ==
    LET kwargs == none_to_empty_dict(kw) IN
    /\ d_func' = f
    /\ d_kwargs' = kwargs
    /\ snia_param' = [func |-> f, k |-> kwargs]
    /\ d_outcome' = SniaDtdOutcome(f, kwargs)
    /\ stdout' = IF SniaDtdPrints(f, kwargs) THEN <<ValidKeywords>> ELSE <<>>
    /\ UNCHANGED <<evVars, bVars>>

InitDtd == DtdIdle /\ EvIdle /\ BIdle

NextDtd ==
    \E f \in Models \cup {"other"}, kw \in KwargsInputs : snia_dtd(f, kw)

SpecDtd == InitDtd /\ [][NextDtd]_vars

\* the call was handed a keyword its model's builder does not accept
UnknownKeyword == d_func \in Models /\ ~(d_kwargs \subseteq BuilderParams(d_func))

\* C1: building a kernel for one of the four models with a keyword the model
\* does not recognise fails with an InvalidParameterError: the call ends in an
\* error and no kernel parameterization is returned to the caller.
C1_UnknownKeywordFails ==
    UnknownKeyword => d_outcome = "InvalidParameterError"

\* C2: the diagnostic printed on an unrecognised keyword lists, for each of the
\* four models whichever was selected, exactly the parameter names that model's
\* builder accepts.
C2_DiagnosticListsBuilderParams ==
    \A i \in 1..Len(stdout) : \A f \in Models : stdout[i][f] = BuilderParams(f)

(***************************************************************************)
(* The builder bodies.  They read and write attributes of self: the time   *)
(* grid self.t (t[i] = i * dt), self.dt, self.n_steps, and the kernel they *)
(* store (dMwd, ria, prob_delay, prob_prompt, min_snia_time).  An          *)
(* attribute that is not set yet (ria, prob_delay, prob_prompt) is <<>>.   *)
(***************************************************************************)
\* the end of the normalization window, in Myr
TenGyr == 10000

\* the time grid of n steps of length d: t[i] = i * d
TimeGrid(n, d) == [k \in 1..n |-> (k - 1) * d]

\* dtd_exp: self.dMwd = self.dt / self.snia_timescale
DtdExpDMwd(d, timescale) == FDiv(Num(d), Num(timescale))

\* dtd_powerlaw, before normalization: ria[ind_min] = self.t[ind_min]**slope
PowerlawRaw(t, min_snia_time, slope) ==
    [k \in 1..Len(t) |->
        IF t[k] >= min_snia_time THEN FPow(Num(t[k]), slope) ELSE Zero]

\* a[ind10000].sum() with ind10000 = np.where(self.t <= 10000.)
SumTo10000(a, t) ==
    NpSum([k \in 1..Len(a) |-> IF t[k] <= TenGyr THEN a[k] ELSE Zero])

\* dtd_powerlaw: norm = nia_per_mstar / ria[ind10000].sum(); ria * norm
DtdPowerlaw(t, min_snia_time, nia_per_mstar, slope) ==
    LET raw == PowerlawRaw(t, min_snia_time, slope)
        norm == FDiv(nia_per_mstar, SumTo10000(raw, t))
    IN Scale(raw, norm)

\* the body of dtd_exp run on self: its first statement (line 77) reads
\* tstep, which is bound nowhere, so the call ends in a NameError before any
\* attribute of self is written
dtd_exp(min_snia_time, timescale, snia_fraction) ==
    /\ b_outcome = "new"
    /\ b_args' = [func |-> "exponential", min_snia_time |-> min_snia_time,
                  timescale |-> timescale, snia_fraction |-> snia_fraction]
    /\ self' = self
    /\ b_outcome' = "NameError"
    /\ UNCHANGED <<dtdVars, evVars>>

\* the body of dtd_prompt_delayed run on self: the two coefficients and the
\* minimum delay time are stored; no kernel ria is built
dtd_prompt_delayed(A, B, min_snia_time) ==
    /\ b_outcome = "new"
    /\ b_args' = [func |-> "prompt_delayed", A |-> A, B |-> B,
                  min_snia_time |-> min_snia_time]
    /\ self' = [self EXCEPT
                  !.prob_delay = A,
                  !.prob_prompt = B,
                  !.min_snia_time = min_snia_time]
    /\ b_outcome' = "returned"
    /\ UNCHANGED <<dtdVars, evVars>>

\* the body of dtd_powerlaw run on self
dtd_powerlaw(min_snia_time, nia_per_mstar, slope) ==
    /\ b_outcome = "new"
    /\ b_args' = [func |-> "power_law", min_snia_time |-> min_snia_time,
                  nia_per_mstar |-> nia_per_mstar, slope |-> slope]
    /\ self' = [self EXCEPT
                  !.min_snia_time = min_snia_time,
                  !.ria = DtdPowerlaw(self.t, min_snia_time, nia_per_mstar,
                                      slope)]
    /\ b_outcome' = "returned"
    /\ UNCHANGED <<dtdVars, evVars>>

\* the body of snia_dtd_single_degenerate run on self: line 155 builds t2,
\* line 156 reads invert_lifetime, which is bound nowhere, so the call ends in
\* a NameError before any attribute of self is written
snia_dtd_single_degenerate(A, gam, eps, normalize, nia_per_mstar) ==
    /\ b_outcome = "new"
    /\ b_args' = [func |-> "single_degenerate", A |-> A, gam |-> gam,
                  eps |-> eps, normalize |-> normalize,
                  nia_per_mstar |-> nia_per_mstar]
    /\ self' = self
    /\ b_outcome' = "NameError"
    /\ UNCHANGED <<dtdVars, evVars>>

\* step lengths in Myr: grids that stay well below 10 Gyr, and grids that
\* reach 10 Gyr in a few steps
FineDts == {15, 29, 30, 31}

CoarseDts == {2500, 5000}

InitKernel ==
    /\ \E d \in FineDts \cup CoarseDts, n \in 2..MaxBuildSteps :
          self = [t |-> TimeGrid(n, d), dt |-> d, n_steps |-> n, ria |-> <<>>,
                  min_snia_time |-> 0, prob_delay |-> <<>>,
                  prob_prompt |-> <<>>]
    /\ b_args = [func |-> ""] /\ b_outcome = "new"
    /\ DtdIdle /\ EvIdle

NextKernel ==
    \/ \E m \in {150, 40}, timescale \in {1500, 60},
          fraction \in {Frac(78, 1000), Frac(55, 1000)} :
          dtd_exp(m, timescale, fraction)
    \/ \E A \in {Frac(44, 1000000000), One}, B \in {Num(2600), Num(2)},
          m \in {40, 150} : dtd_prompt_delayed(A, B, m)
    \/ \E m \in {40, 6000, 12000}, nia \in {Frac(22, 10000), Zero},
          slope \in {-1, 0, 1} : dtd_powerlaw(m, nia, slope)
    \/ \E A \in {Frac(5, 10000), One}, gam \in {2, 1}, eps \in {One, Frac(1, 2)},
          normalize \in BOOLEAN, nia \in {Frac(154, 100000), Zero} :
          snia_dtd_single_degenerate(A, gam, eps, normalize, nia)

SpecKernel == InitKernel /\ [][NextKernel]_vars

(***************************************************************************)
(* snia_ev: the expected number of SNIa of one time step.                  *)
(***************************************************************************)
\* tstep - np.ceil(params['snia']['min_time'] / dt)
IndMinTFloor(p, ts, d) == ts - (p.min_time \div d)

IndMinT(p, ts, d) == ts - CeilDiv(p.min_time, d)

\* np.sum(Mwd_Ia[:ind_min_t + 1] * dMwd / snia_mass)
ExpCount(res, ind, dm, sm) ==
    LET s == Slice(res, 0, ind + 1)
    IN NpSum([k \in 1..Len(s) |-> FDiv(FMul(s[k], dm), sm)])

\* Mwd_Ia[:ind_min_t + 1] *= 1. - dMwd
ExpDecayShort(res, ind, dm) ==
    [k \in 1..Len(res) |->
        IF k <= ind THEN FMul(res[k], FSub(One, dm)) ELSE res[k]]

ExpDecayOperandsSwapped(res, ind, dm) ==
    [k \in 1..Len(res) |->
        IF k <= ind + 1 THEN FMul(res[k], FSub(dm, One)) ELSE res[k]]

ExpDecay(res, ind, dm) ==
    [k \in 1..Len(res) |->
        IF k <= ind + 1 THEN FMul(res[k], FSub(One, dm)) ELSE res[k]]

\* the two operands of the product in
\* np.sum(ria[:tstep] * np.sum(mstar[1:tstep + 1], axis=1)[::-1])
ConvKernel(r, ts) == Slice(r, 0, ts)

ConvHistoryNotReversed(m, ts) == SumAxis1(Slice(m, 1, ts + 1))

ConvHistory(m, ts) == Reverse(SumAxis1(Slice(m, 1, ts + 1)))

ConvCount(r, m, ts) == NpSum(ArrMul(ConvKernel(r, ts), ConvHistory(m, ts)))

\* (Nia_prompt + Nia_delay) * dt on the branch ind <= 0, where Nia_prompt = 0.
PromptDelayedCount(p, mtot, d) ==
    FMul(FAdd(Zero, FMul(mtot, p.prob_delay)), Num(d))

\* prompt_delayed's ind = tstep - np.ceil(params['snia']['min_time'] / dt):
\* np.ceil returns a float and nothing converts it, so ind is a float
PromptDelayedInd(p, ts, d) == [value |-> IndMinT(p, ts, d), isInt |-> FALSE]

\* how a[ind] ends for a numpy array a of n entries: only an integer is a valid
\* index, and it must lie in -n..n-1
NpIndexOutcome(n, ind) ==
    IF ind.isInt /\ -n <= ind.value /\ ind.value < n THEN "ok"
    ELSE "IndexError"

\* how the call ends.  prompt_delayed computes ind without .astype(int): it is
\* a float, and sfr[ind], evaluated when ind > 0, is an IndexError of numpy
\* (only integers are valid indices).  A product of arrays whose lengths do not
\* broadcast is a ValueError.  A func that is none of the four leaves Nia_stat
\* unbound at the return.
SniaEvOutcome(p, ts, d, r, m, sf) ==
    CASE p.func = "exponential" -> "ok"
      [] p.func \in {"power_law", "single_degenerate"} ->
             IF Broadcasts(ConvKernel(r, ts), ConvHistory(m, ts))
             THEN "ok" ELSE "ValueError"
      [] p.func = "prompt_delayed" ->
             IF IndMinT(p, ts, d) > 0
             THEN NpIndexOutcome(Len(sf), PromptDelayedInd(p, ts, d))
             ELSE "ok"
      [] OTHER -> "UnboundLocalError"

\* the value returned when the call ends "ok"
SniaEvCountAfterDecay(p, ts, d, res, dm, r, m, sm, mtot) ==
    CASE p.func = "exponential" ->
             IF IndMinT(p, ts, d) > 0
             THEN ExpCount(ExpDecay(res, IndMinT(p, ts, d), dm),
                           IndMinT(p, ts, d), dm, sm)
             ELSE Zero
      [] p.func \in {"power_law", "single_degenerate"} -> ConvCount(r, m, ts)
      [] p.func = "prompt_delayed" -> PromptDelayedCount(p, mtot, d)

SniaEvCount(p, ts, d, res, dm, r, m, sm, mtot) ==
    CASE p.func = "exponential" ->
             IF IndMinT(p, ts, d) > 0
             THEN ExpCount(res, IndMinT(p, ts, d), dm, sm)
             ELSE Zero
      [] p.func \in {"power_law", "single_degenerate"} -> ConvCount(r, m, ts)
      [] p.func = "prompt_delayed" -> PromptDelayedCount(p, mtot, d)

\* Mwd_Ia after the call
SniaEvReservoirAlways(p, ts, d, res, dm) ==
    IF IndMinT(p, ts, d) > 0 THEN ExpDecay(res, IndMinT(p, ts, d), dm) ELSE res

SniaEvReservoir(p, ts, d, res, dm) ==
    IF p.func = "exponential" /\ IndMinT(p, ts, d) > 0
    THEN ExpDecay(res, IndMinT(p, ts, d), dm)
    ELSE res

snia_ev(ts) ==
    /\ calls < MaxCalls
    /\ calls' = calls + 1
    /\ tstep' = ts
    /\ outcome' = SniaEvOutcome(params, ts, dt, ria, mstar, sfr)
    /\ Nia_stat' =
         IF outcome' = "ok"
         THEN SniaEvCount(params, ts, dt, Mwd_Ia, dMwd, ria, mstar, snia_mass,
                          mstar_tot)
         ELSE Nia_stat
    /\ Mwd_Ia' =
         IF outcome' = "ok"
         THEN SniaEvReservoir(params, ts, dt, Mwd_Ia, dMwd)
         ELSE Mwd_Ia
    /\ emitted' =
         IF outcome' = "ok" /\ params.func = "exponential"
         THEN FAdd(emitted, FMul(Nia_stat', snia_mass))
         ELSE emitted
    /\ UNCHANGED <<params, dt, dMwd, ria, mstar, snia_mass, mstar_tot, sfr,
                   Mwd0>>
    /\ UNCHANGED <<dtdVars, bVars>>

(***************************************************************************)
(* The inputs of the event-engine runs.                                    *)
(***************************************************************************)
\* (dt, min_snia_time) in Myr: the defaults dt = 30 with 150 and 40, and a
\* minimum delay that is a whole number of steps
GridConfigs == {<<30, 150>>, <<30, 40>>, <<30, 60>>}

\* exponential timescales in Myr: dMwd = 1/50, 1/2, 1 and 3/2
Timescales == {1500, 60, 30, 20}

\* reservoirs: one deposit in one entry, or a deposit in every entry
Reservoirs == {OneHot(NSteps, p, Num(4)) : p \in 1..NSteps} \cup {Ramp(NSteps)}

\* rate kernels of n entries: one non-zero entry, a ramp, or the kernel the
\* power-law builder makes on the grid
KernelInputs(n, d) ==
    {OneHot(n, p, Frac(1, 2)) : p \in 1..n}
    \cup {Ramp(n), DtdPowerlaw(TimeGrid(n, d), 40, Frac(22, 10000), -1)}

\* mass formed per step and mass bin (two bins): one step forming mass, or
\* every step forming a different mass
MstarInputs ==
    {[k \in 1..NSteps |-> IF k = p THEN <<One, Num(2)>> ELSE <<Zero, Zero>>] :
        p \in 1..NSteps}
    \cup {[k \in 1..NSteps |-> <<Num(k), One>>]}

InitEvCommon ==
    /\ tstep = 0 /\ calls = 0 /\ outcome = "new" /\ Nia_stat = Zero
    /\ emitted = Zero /\ snia_mass = Frac(7, 5)
    /\ DtdIdle /\ BIdle

InitExponential ==
    \E cfg \in GridConfigs, timescale \in Timescales, res \in Reservoirs :
        /\ dt = cfg[1]
        /\ params = [func |-> "exponential", min_time |-> cfg[2],
                     prob_prompt |-> Zero, prob_delay |-> Zero]
        /\ dMwd = DtdExpDMwd(cfg[1], timescale)
        /\ Mwd_Ia = res /\ Mwd0 = res
        /\ ria = Zeros(NSteps) /\ mstar = [k \in 1..NSteps |-> <<Zero, Zero>>]
        /\ sfr = Zeros(NSteps) /\ mstar_tot = Zero

InitConvolution ==
    \E f \in {"power_law", "single_degenerate"}, m \in MstarInputs :
    \E r \in KernelInputs(IF f = "power_law" THEN NSteps ELSE NSteps - 1, 30) :
        /\ dt = 30
        /\ params = [func |-> f, min_time |-> 40,
                     prob_prompt |-> Zero, prob_delay |-> Zero]
        /\ dMwd = Frac(1, 2)
        /\ Mwd_Ia = Ramp(NSteps) /\ Mwd0 = Ramp(NSteps)
        /\ ria = r /\ mstar = m
        /\ sfr = Ramp(NSteps) /\ mstar_tot = NpSum(SumAxis1(m))

InitPromptDelayed ==
    \E cfg \in GridConfigs, mtot \in {Zero, Num(5)} :
        /\ dt = cfg[1]
        /\ params = [func |-> "prompt_delayed", min_time |-> cfg[2],
                     prob_prompt |-> Num(2600),
                     prob_delay |-> Frac(11, 250000000)]
        /\ dMwd = Frac(1, 2)
        /\ Mwd_Ia = Ramp(NSteps) /\ Mwd0 = Ramp(NSteps)
        /\ ria = Zeros(NSteps) /\ mstar = [k \in 1..NSteps |-> <<Zero, Zero>>]
        /\ sfr = Ramp(NSteps) /\ mstar_tot = mtot

InitOtherFunc ==
    /\ dt = 30
    /\ params = [func |-> "other", min_time |-> 40,
                 prob_prompt |-> Zero, prob_delay |-> Zero]
    /\ dMwd = Frac(1, 2)
    /\ Mwd_Ia = Ramp(NSteps) /\ Mwd0 = Ramp(NSteps)
    /\ ria = Zeros(NSteps) /\ mstar = [k \in 1..NSteps |-> <<Zero, Zero>>]
    /\ sfr = Ramp(NSteps) /\ mstar_tot = Zero

InitEv ==
    /\ InitEvCommon
    /\ \/ InitExponential
       \/ InitConvolution
       \/ InitPromptDelayed
       \/ InitOtherFunc

NextEv == \E ts \in 0..(NSteps - 1) : snia_ev(ts)

SpecEv == InitEv /\ [][NextEv]_vars

(***************************************************************************)
(* The claims about snia_ev, checked under SpecEv.                         *)
(***************************************************************************)
\* the number of whole steps the minimum delay takes: the least c with
\* c * dt >= min_time
DelaySteps ==
    CHOOSE c \in 0..params.min_time :
        c * dt >= params.min_time /\ (c = 0 \/ (c - 1) * dt < params.min_time)

\* a step of the model is one call of snia_ev
Called == calls' = calls + 1

\* C3: in the exponential model a call at a tstep with
\* tstep - ceil(min_snia_time / dt) <= 0 returns count 0 and leaves every
\* entry of the reservoir as it was; the call does not fail.
C3_TooYoungNoEvents ==
    [][(Called /\ params.func = "exponential" /\ tstep' - DelaySteps <= 0)
        => (outcome' = "ok" /\ Nia_stat' = Zero /\ Mwd_Ia' = Mwd_Ia)]_vars

\* the scenario dt = 30, min_snia_time = 150, tstep = 4 on a reservoir that
\* holds mass in an entry up to tstep
C3_Witness ==
    /\ params.func = "exponential" /\ dt = 30 /\ params.min_time = 150
    /\ tstep = 4 /\ calls = 1 /\ outcome = "ok"
    /\ Nia_stat = Zero /\ Mwd_Ia = Mwd0
    /\ \E k \in 1..5 : Mwd0[k] # Zero

\* sum for j = 0..n of res[j] * dm / sm
RECURSIVE EligibleSum(_, _, _, _)
EligibleSum(res, n, dm, sm) ==
    IF n < 0 THEN Zero
    ELSE FAdd(EligibleSum(res, n - 1, dm, sm),
              FDiv(FMul(res[n + 1], dm), sm))

\* C4: in the exponential model a call with ind_min_t > 0 returns the sum over
\* j = 0..ind_min_t of reservoir[j] * dMwd / snia_mass taken on the reservoir
\* as it was before the call, and afterwards every entry 0..ind_min_t holds
\* its value before the call times (1 - dMwd) and every later entry is
\* unchanged.
C4_CountThenDecay ==
    [][(Called /\ params.func = "exponential" /\ tstep' - DelaySteps > 0)
        => /\ outcome' = "ok"
           /\ Nia_stat' = EligibleSum(Mwd_Ia, tstep' - DelaySteps, dMwd,
                                      snia_mass)
           /\ Len(Mwd_Ia') = Len(Mwd_Ia)
           /\ \A k \in 1..Len(Mwd_Ia) :
                 Mwd_Ia'[k] =
                     IF k - 1 <= tstep' - DelaySteps
                     THEN FMul(Mwd_Ia[k], FSub(One, dMwd))
                     ELSE Mwd_Ia[k]]_vars

\* a call with ind_min_t > 0 that returned a positive count, decayed an entry
\* and left a later, non-empty entry alone
C4_Witness ==
    /\ params.func = "exponential" /\ outcome = "ok"
    /\ tstep - DelaySteps > 0
    /\ FLt(Zero, Nia_stat)
    /\ \E k \in 1..Len(Mwd_Ia) :
          k - 1 <= tstep - DelaySteps /\ Mwd_Ia[k] # Mwd0[k]
    /\ \E k \in 1..Len(Mwd_Ia) :
          k - 1 > tstep - DelaySteps /\ Mwd_Ia[k] = Mwd0[k] /\ Mwd0[k] # Zero

\* C5: exponential-model mass conservation with 0 < dMwd <= 1: after every
\* step the mass emitted so far (the sum of count * snia_mass) plus the mass
\* still in the reservoir equals the mass deposited, so the emitted mass never
\* exceeds the deposit, and no entry holds more than was deposited in it.
C5_MassConserved ==
    (params.func = "exponential" /\ FLt(Zero, dMwd) /\ FLeq(dMwd, One))
    => /\ FAdd(emitted, NpSum(Mwd_Ia)) = NpSum(Mwd0)
       /\ FLeq(Zero, emitted) /\ FLeq(emitted, NpSum(Mwd0))
       /\ \A k \in 1..Len(Mwd_Ia) :
             FLeq(Zero, Mwd_Ia[k]) /\ FLeq(Mwd_Ia[k], Mwd0[k])

\* a single entry holding the deposit 4, decayed twice with dMwd = 1/2: 1 is
\* left in the entry and 3 has been emitted
C5_Witness ==
    /\ params.func = "exponential" /\ dMwd = Frac(1, 2) /\ calls >= 2
    /\ \E k \in 1..Len(Mwd0) :
          /\ Mwd0 = OneHot(NSteps, k, Num(4))
          /\ Mwd_Ia[k] = One
    /\ emitted = Num(3)

\* C6: for func in {power_law, prompt_delayed, single_degenerate} a call of
\* snia_ev leaves Mwd_Ia, ria, mstar, sfr and mstar_tot unchanged, and a call
\* that repeats the tstep of the call before it returns the same count.
C6_OnlyExponentialMutates ==
    [][(Called /\ params.func \in {"power_law", "prompt_delayed",
                                   "single_degenerate"})
        => /\ UNCHANGED <<Mwd_Ia, ria, mstar, sfr, mstar_tot>>
           /\ (tstep' = tstep /\ outcome = "ok" /\ outcome' = "ok")
                 => Nia_stat' = Nia_stat]_vars

\* two calls of a convolution model, at a tstep where the exponential model
\* would have decayed the reservoir, with the reservoir as deposited
C6_Witness ==
    /\ params.func \in {"power_law", "single_degenerate"}
    /\ calls >= 2 /\ outcome = "ok" /\ FLt(Zero, Nia_stat)
    /\ tstep - DelaySteps > 0
    /\ Mwd_Ia = Mwd0 /\ Mwd0 = Ramp(NSteps)

\* C7 as claimed: for all four models, after any sequence of steps, the count
\* returned by snia_ev is >= 0, given non-negative star-formation history,
\* stellar mass and reservoir deposits and positive snia_mass and dt.
C7_CountNonNegative == outcome = "ok" => FLeq(Zero, Nia_stat)

\* C7 as amended: the same, given also that the decay fraction
\* dMwd = dt / timescale is at most 1 (and the kernel values ria, prob_prompt
\* and prob_delay are non-negative, as they are in every run here).
C7_CountNonNegativeDecayAtMostOne ==
    (outcome = "ok" /\ FLeq(Zero, dMwd) /\ FLeq(dMwd, One))
    => FLeq(Zero, Nia_stat)

\* a positive count of the exponential model from a reservoir that earlier
\* calls have decayed
C7_Witness ==
    /\ params.func = "exponential" /\ FLeq(dMwd, One) /\ calls >= 2
    /\ outcome = "ok" /\ FLt(Zero, Nia_stat)
    /\ FLt(FMul(Nia_stat, snia_mass), emitted)

\* sum for i = 0..n of r[i] * (mass formed at step ts - i, over all bins)
RECURSIVE CausalSum(_, _, _, _)
CausalSum(r, m, ts, n) ==
    IF n < 0 THEN Zero
    ELSE FAdd(CausalSum(r, m, ts, n - 1),
              FMul(r[n + 1], FAdd(m[ts - n + 1][1], m[ts - n + 1][2])))

\* C8: for power_law and single_degenerate, snia_ev returns the sum for
\* i = 0..tstep-1 of ria[i] times the mass formed at step tstep - i summed
\* over the mass bins: each past step 1..tstep contributes once, weighted by
\* the kernel at its age, and no step after tstep contributes.
C8_CausalConvolution ==
    (params.func \in {"power_law", "single_degenerate"} /\ outcome = "ok")
    => Nia_stat = CausalSum(ria, mstar, tstep, tstep - 1)

\* a call at tstep >= 3 on a history that differs from step to step, with a
\* kernel that differs from age to age
C8_Witness ==
    /\ params.func \in {"power_law", "single_degenerate"} /\ outcome = "ok"
    /\ tstep >= 3 /\ FLt(Zero, Nia_stat)
    /\ ria[1] # ria[3] /\ ria[3] # Zero
    /\ mstar[2] # mstar[4] /\ mstar[2] # <<Zero, Zero>>

\* C11: for each of the four models and every tstep in [0, n_steps), with
\* history arrays of depth at least tstep, snia_ev completes and returns a
\* count without raising: every index it computes into sfr, Mwd_Ia, ria and
\* mstar, prompt_delayed's ind = tstep - ceil(min_snia_time / dt) included, is
\* a valid index.
C11_NeverRaisesInRange ==
    (calls >= 1 /\ params.func \in Models
     /\ tstep < Len(sfr) /\ tstep < Len(mstar) /\ tstep < Len(Mwd_Ia))
    => outcome = "ok"

(***************************************************************************)
(* The claims about the builder bodies, checked under SpecKernel.          *)
(***************************************************************************)
\* a call of the single-degenerate builder on self has ended
SdBuildEnded == b_args.func = "single_degenerate" /\ b_outcome # "new"

ZeroDenominator ==
    \/ /\ b_args.func = "power_law"
       /\ \A k \in 1..Len(self.t) :
             (b_args.min_snia_time <= self.t[k] /\ self.t[k] <= TenGyr)
                 => FPow(Num(self.t[k]), b_args.slope) = Zero
    \/ /\ b_args.func = "single_degenerate" /\ b_args.normalize
       /\ b_outcome \notin {"IndexError", "NameError"}
       /\ \A k \in 1..Len(b_args.rebinned) :
             self.t[k] <= TenGyr => b_args.rebinned[k] = Zero

\* C10: when the normalization denominator is zero, in the power-law builder
\* or in the single-degenerate builder with normalize=True, the build fails
\* with a NormalizationError and yields no kernel whose ria holds NaN or Inf.
C10_ZeroDenominatorFailsFast ==
    ZeroDenominator =>
        b_outcome = "NormalizationError" /\ ~HasNaNOrInf(self.ria)

====
